---- MODULE Spec2Model ----
(***************************************************************************)
(* Photo gallery (src/app.py): the photos table, the two artifact          *)
(* directories, the session flag and the request handlers of the Flask     *)
(* application, each handler split at the points where it touches the      *)
(* table or the file system.                                               *)
(*                                                                         *)
(* Strings are sequences of one-character strings, so that strip(),        *)
(* lower(), splitext() and the TEXT comparison of ORDER BY are computed    *)
(* as the code computes them.  A form field that is absent is NoValue.     *)
(***************************************************************************)
EXTENDS Naturals, Integers, Sequences, FiniteSets, TLC

VARIABLES
    photos,      \* the rows of table photos (a set of records)
    seq,         \* sqlite_sequence of photos: the largest id ever assigned
    webFiles,    \* names of the files present in UPLOAD_DIR_WEB
    thumbFiles,  \* names of the files present in UPLOAD_DIR_THUMBS
    issued,      \* number of names _unique has returned so far
    session,     \* session id -> whether session['authed'] is set
    clock,       \* wall clock, in half-day phases
    tzdata,      \* whether ZoneInfo('Asia/Tokyo') is available to the process
    ADMIN_PASSWORD,  \* the password the process was configured with
    reqs,        \* request slot -> the request being handled in it
    failures     \* history: number of requests that have ended in an error

vars == <<photos, seq, webFiles, thumbFiles, issued, session, clock, tzdata,
          ADMIN_PASSWORD, reqs, failures>>

-----------------------------------------------------------------------------
(* Bounds of the model *)

MaxUploads == 2      \* uploads that get as far as generating names
MaxTick == 1         \* clock phases that pass
MaxFailures == 1     \* requests that end in an error of the file system or the table

(* Program constants *)

WEB_MAX_SIDE == 2000
THUMB_MAX_SIDE == 700

-----------------------------------------------------------------------------
(* The float arithmetic of _save.  A double is a record [man, exp] of value
   man * 2^exp, where man is a numeral of five digits in base 2^13, most
   significant first, with at most 53 significant bits; only its leading
   digit may exceed the base.  1.0 is [<<1, 0, 0, 0, 0>>, -52]. *)

Limb == 8192

\* the number of bits of n >= 1
bitLength(n) == CHOOSE k \in 1..31 : 2^(k - 1) <= n /\ (k = 31 \/ n < 2^k)

\* man + c * 2^d at the last digit, the carry taken up to the leading digit
addLow(man, c) ==
    LET t5 == man[5] + c
        t4 == man[4] + (t5 \div Limb)
        t3 == man[3] + (t4 \div Limb)
        t2 == man[2] + (t3 \div Limb)
    IN  <<man[1] + (t2 \div Limb), t2 % Limb, t3 % Limb, t4 % Limb, t5 % Limb>>

\* float(a) / float(b) for integers 1 <= a, b < 2^13: the quotient is scaled
\* into [1, 2), 52 more bits come out of the long division, and the rest
\* rounds to nearest, ties to even
fdiv(a, b) ==
    LET k == CHOOSE k \in -13..13 :
                IF k >= 0 THEN b <= a * 2^k /\ a * 2^k < 2 * b
                ELSE b * 2^(-k) <= a /\ a < 2 * b * 2^(-k)
        num == IF k >= 0 THEN a * 2^k ELSE a
        den == IF k >= 0 THEN b ELSE b * 2^(-k)
        r0 == num - den
        d1 == (r0 * Limb) \div den    r1 == (r0 * Limb) % den
        d2 == (r1 * Limb) \div den    r2 == (r1 * Limb) % den
        d3 == (r2 * Limb) \div den    r3 == (r2 * Limb) % den
        d4 == (r3 * Limb) \div den    r4 == (r3 * Limb) % den
        half == 2 * r4 >= den
        rest == 2 * r4 # den /\ r4 # 0
        up == half /\ (rest \/ d4 % 2 = 1)
        man == addLow(<<1, d1, d2, d3, d4>>, IF up THEN 1 ELSE 0)
    IN  [man |-> man, exp |-> -52 - k]

\* float(w) * x for an integer 1 <= w < 2^13 and a double x with leading
\* digit 1: the exact product, then the bits below the 53rd rounded away
fmul(w, x) ==
    LET t5 == x.man[5] * w
        t4 == x.man[4] * w + (t5 \div Limb)
        t3 == x.man[3] * w + (t4 \div Limb)
        t2 == x.man[2] * w + (t3 \div Limb)
        top == x.man[1] * w + (t2 \div Limb)
        p == <<top, t2 % Limb, t3 % Limb, t4 % Limb, t5 % Limb>>
        d == bitLength(top) - 1              \* bits to drop, all in p[5]
        low == p[5] % 2^d
        half == d >= 1 /\ low >= 2^(d - 1)
        rest == d >= 1 /\ low % 2^(d - 1) # 0
        lsb == IF d = 13 THEN p[4] % 2 ELSE (p[5] \div 2^d) % 2
        up == half /\ (rest \/ lsb = 1)
    IN  [man |-> addLow([p EXCEPT ![5] = p[5] - low], IF up THEN 2^d ELSE 0),
         exp |-> x.exp]

fone == [man |-> <<1, 0, 0, 0, 0>>, exp |-> -52]

\* x < 1.0, for a double x with leading digit 1
flessOne(x) == x.exp < -52

\* min(x, 1.0)
fminOne(x) == IF flessOne(x) THEN x ELSE fone

\* int(x) for a double x >= 0 with exp <= -52: the digits after the leading
\* one are worth less than 2^52
ftrunc(x) == x.man[1] \div 2^(-52 - x.exp)

Max2(a, b) == IF a >= b THEN a ELSE b

\* line 84: scale = min(max_side / max(w, h), 1.0)
scaleOf(size, max_side) == fminOne(fdiv(max_side, Max2(size[1], size[2])))

\* line 85: new_w, new_h = int(w * scale), int(h * scale)
newSize(size, max_side) ==
    <<ftrunc(fmul(size[1], scaleOf(size, max_side))),
      ftrunc(fmul(size[2], scaleOf(size, max_side)))>>

-----------------------------------------------------------------------------
(* Strings *)

NoValue == <<"<absent>">>

\* The characters of the model in code-point order (TEXT compares by memcmp).
Alphabet == <<" ", "-", ".", "/", "0", "1", "2", "3", "4", "5", "6", "7", "8",
              "9", "G", "J", "N", "P", "T", "a", "b", "e", "f", "g", "i", "j",
              "n", "p", "t", "w", "x", "U+540D", "U+547D", "U+672A">>

Ord(c) == CHOOSE i \in 1..Len(Alphabet) : Alphabet[i] = c

Whitespace == {" "}

RECURSIVE lstrip(_)
lstrip(s) == IF s # <<>> /\ Head(s) \in Whitespace THEN lstrip(Tail(s)) ELSE s

RECURSIVE rstrip(_)
rstrip(s) == IF s # <<>> /\ s[Len(s)] \in Whitespace
             THEN rstrip(SubSeq(s, 1, Len(s) - 1)) ELSE s

\* str.strip()
strip(s) == rstrip(lstrip(s))

\* str.lower() on the letters of the model
lowerChar(c) == CASE c = "G" -> "g" [] c = "J" -> "j" [] c = "N" -> "n"
                  [] c = "P" -> "p" [] c = "T" -> "t" [] OTHER -> c

lower(s) == [i \in 1..Len(s) |-> lowerChar(s[i])]

\* str.rfind of a single character: the last index of c in s, 0 when absent
\* (indices are 1-based here, so 0 stands for Python's -1).
rfind(s, c) == IF \E i \in 1..Len(s) : s[i] = c
               THEN CHOOSE i \in 1..Len(s) :
                        s[i] = c /\ \A j \in (i+1)..Len(s) : s[j] # c
               ELSE 0

\* os.path.splitext(p)[1]: the text from the last dot of the last path
\* component, empty when that component has no dot or only leading dots.
splitext_ext(p) ==
    LET sepIndex == rfind(p, "/")
        dotIndex == rfind(p, ".")
    IN  IF dotIndex > sepIndex
           /\ \E k \in (sepIndex+1)..(dotIndex-1) : p[k] # "."
        THEN SubSeq(p, dotIndex, Len(p))
        ELSE <<>>

\* t < u in the order of TEXT values (BINARY collation)
RECURSIVE TextLess(_, _)
TextLess(t, u) ==
    IF u = <<>> THEN FALSE
    ELSE IF t = <<>> THEN TRUE
    ELSE IF Head(t) # Head(u) THEN Ord(Head(t)) < Ord(Head(u))
    ELSE TextLess(Tail(t), Tail(u))

-----------------------------------------------------------------------------
(* Configuration and small helpers of app.py *)

\* the password of a process started without ADMIN_PASSWORD in its environment
DefaultPassword == <<"1", "2", "3", "4", "5", "6">>

ALLOWED_EXTS == { <<".", "j", "p", "g">>, <<".", "j", "p", "e", "g">>,
                  <<".", "p", "n", "g">>, <<".", "g", "i", "f">>,
                  <<".", "w", "e", "b", "p">> }

\* the placeholder title, three CJK characters named by code point
Placeholder == <<"U+672A", "U+547D", "U+540D">>

\* mutant: any extension at all is accepted
allowedAnyExt(filename) == splitext_ext(filename) # <<>>

allowed_file(filename) == lower(splitext_ext(filename)) \in ALLOWED_EXTS

\* (request.form.get(k) or '')
orEmpty(v) == IF v = NoValue THEN <<>> ELSE v

\* date.isoformat() of the day with index d, the d+1st of a month; the
\* "YYYY-MM-" that all dates of the model would share is left out
isoformat(d) == <<"0", Alphabet[5 + d + 1]>>

utcDay(t) == t \div 2
tokyoDay(t) == (t + 1) \div 2      \* Tokyo is nine hours ahead of UTC

tokyo_today_str == IF tzdata THEN isoformat(tokyoDay(clock))
                   ELSE isoformat(utcDay(clock))

\* mutant: a non-blank title is stored as submitted, not stripped
formTitleUnstripped(v) == IF strip(orEmpty(v)) # <<>> THEN orEmpty(v) ELSE Placeholder

formTitle(v) == IF strip(orEmpty(v)) # <<>> THEN strip(orEmpty(v)) ELSE Placeholder

formDate(v) == IF strip(orEmpty(v)) # <<>> THEN strip(orEmpty(v))
               ELSE tokyo_today_str

-----------------------------------------------------------------------------
(* Inputs a request can carry *)

Sessions == {"s1"}
Slots == {1, 2}

\* the password field of a login form: absent, empty, the default password,
\* another one
Passwords == {NoValue, <<>>, DefaultPassword, <<"1", "2", "3">>}

\* the title and date fields of a form: absent, blank, plain, padded
Forms == {[title |-> NoValue, date |-> NoValue],
          [title |-> <<" ">>, date |-> <<" ">>],
          [title |-> <<"T">>, date |-> <<"0", "2">>],
          [title |-> <<" ", "T", " ">>, date |-> <<" ", "0", "2", " ">>]}

NoFile == <<"<no file>">>

Filenames == {NoFile, <<>>,
              <<"a", ".", "j", "p", "g">>,
              <<"b", ".", "P", "N", "G">>,
              <<"a", ".", "t", "x", "t">>,
              <<".", "g", "i", "f">>,
              <<"a", ".", "j", "p", "g", "/", "b">>}

Pids == 1..(MaxUploads + 1)

\* what Image.open makes of the uploaded stream: nothing, or an image of a
\* size <<width, height>> (as it is after exif_transpose)
NotAnImage == <<0, 0>>

\* wider than both bounds; one pixel wide and just over the thumbnail bound;
\* within both bounds
Images == {<<2105, 600>>, <<1, 701>>, <<640, 480>>}

-----------------------------------------------------------------------------
(* The table and the directories *)

Snapshot == [photos |-> photos, web |-> webFiles, thumb |-> thumbFiles]

\* SELECT filename_web, filename_thumb FROM photos WHERE id=?, .fetchone():
\* a set with the one row, or empty
selectById(pid) ==
    {[filename_web |-> r.filename_web, filename_thumb |-> r.filename_thumb] :
        r \in {q \in photos : q.id = pid}}

\* ORDER BY id DESC
RECURSIVE orderByIdDesc(_)
orderByIdDesc(S) ==
    IF S = {} THEN <<>>
    ELSE LET first == CHOOSE r \in S : \A o \in S \ {r} : r.id > o.id
         IN  <<first>> \o orderByIdDesc(S \ {first})

\* mutant: the rows of the index come ordered by id alone
orderIgnoringDate(S) == orderByIdDesc(S)

\* r comes before o under ORDER BY date DESC, id DESC
beforeDateId(r, o) == TextLess(o.date, r.date) \/ (o.date = r.date /\ r.id > o.id)

RECURSIVE orderByDateIdDesc(_)
orderByDateIdDesc(S) ==
    IF S = {} THEN <<>>
    ELSE LET first == CHOOSE r \in S : \A o \in S \ {r} : beforeDateId(r, o)
         IN  <<first>> \o orderByDateIdDesc(S \ {first})

\* the loop of index(): a new group whenever the date differs from last_date
RECURSIVE groupRows(_, _, _)
groupRows(rows, groups, last_date) ==
    IF rows = <<>> THEN groups
    ELSE LET r == Head(rows)
             opened == IF r.date # last_date
                       THEN Append(groups, [date |-> r.date, items |-> <<>>])
                       ELSE groups
             n == Len(opened)
         IN  groupRows(Tail(rows),
                       [opened EXCEPT ![n].items = Append(@, r)],
                       r.date)

indexGroups == groupRows(orderByDateIdDesc(photos), <<>>, NoValue)

\* mutant: both names of an upload come out the same
uniqueRepeats(k) == issued + 1

\* _unique('.jpg'): the k-th name generated from now on; uuid4 never repeats
_unique(k) == issued + k

-----------------------------------------------------------------------------
(* Requests *)

Idle == [kind |-> "idle", pc |-> "idle", authed |-> FALSE, pid |-> 0,
         rawTitle |-> NoValue, rawDate |-> NoValue, title |-> <<>>, date |-> <<>>,
         file |-> NoFile, imgValid |-> FALSE, decoded |-> FALSE,
         img |-> NotAnImage, web_size |-> <<0, 0>>, thumb_size |-> <<0, 0>>,
         fault |-> FALSE,
         web_name |-> 0, thumb_name |-> 0, row |-> {}, outcome |-> "",
         pre |-> [photos |-> {}, web |-> {}, thumb |-> {}], resp |-> <<>>,
         at |-> 0]

InFlight == {s \in Slots : reqs[s].kind # "idle"}

\* a request may start in slot s: at most `limit` requests are handled at once
canStart(s, limit) ==
    /\ reqs[s].kind = "idle"
    /\ \A t \in Slots : t < s => reqs[t].kind # "idle"
    /\ Cardinality(InFlight) < limit

done(r, outcome) == [r EXCEPT !.pc = "done", !.outcome = outcome]

\* a write to the file system or the table may be made to fail
mayFail == failures < MaxFailures

\* one more failed request (the count stops at MaxFailures)
failed == IF failures < MaxFailures THEN failures + 1 ELSE failures

\* the state of a process just started, but for its environment
Start ==
    /\ photos = {}
    /\ seq = 0
    /\ webFiles = {}
    /\ thumbFiles = {}
    /\ issued = 0
    /\ session = [c \in Sessions |-> FALSE]
    /\ clock = 0
    /\ reqs = [s \in Slots |-> Idle]
    /\ failures = 0

\* started without ADMIN_PASSWORD in the environment, with or without the
\* timezone data
Init ==
    /\ Start
    /\ tzdata \in BOOLEAN
    /\ ADMIN_PASSWORD = DefaultPassword

Tick ==
    /\ clock < MaxTick
    /\ clock' = clock + 1
    /\ UNCHANGED <<photos, seq, webFiles, thumbFiles, issued, session, tzdata,
                   ADMIN_PASSWORD, reqs, failures>>

\* the response has been sent
Respond(s) ==
    /\ reqs[s].pc = "done"
    /\ reqs' = [reqs EXCEPT ![s] = Idle]
    /\ UNCHANGED <<photos, seq, webFiles, thumbFiles, issued, session, clock,
                   tzdata, ADMIN_PASSWORD, failures>>

-----------------------------------------------------------------------------
(* Login and logout: the handlers touch the session only *)

\* mutant: the gate lets every session through
authorizedAlways(c) == TRUE

\* session.get('authed')
authorized(c) == session[c]

\* mutant: a password that does not match ends the session's login
checkPasswordOrClear(c, password) ==
    session' = [session EXCEPT ![c] = orEmpty(password) = ADMIN_PASSWORD]

\* the POST branch shared by login_alias and admin_login
checkPassword(c, password) ==
    session' = IF orEmpty(password) = ADMIN_PASSWORD
               THEN [session EXCEPT ![c] = TRUE]
               ELSE session

login_alias(c, password, limit) ==
    /\ Cardinality(InFlight) < limit
    /\ checkPassword(c, password)
    /\ UNCHANGED <<photos, seq, webFiles, thumbFiles, issued, clock, tzdata,
                   ADMIN_PASSWORD, reqs, failures>>

admin_login(c, password, limit) ==
    /\ Cardinality(InFlight) < limit
    /\ checkPassword(c, password)
    /\ UNCHANGED <<photos, seq, webFiles, thumbFiles, issued, clock, tzdata,
                   ADMIN_PASSWORD, reqs, failures>>

admin_logout(c, limit) ==
    /\ Cardinality(InFlight) < limit
    /\ session' = [session EXCEPT ![c] = FALSE]
    /\ UNCHANGED <<photos, seq, webFiles, thumbFiles, issued, clock, tzdata,
                   ADMIN_PASSWORD, reqs, failures>>

-----------------------------------------------------------------------------
(* The listings *)

index(s, limit) ==
    /\ canStart(s, limit)
    /\ reqs' = [reqs EXCEPT ![s] =
                  done([Idle EXCEPT !.kind = "index", !.pre = Snapshot,
                                    !.resp = indexGroups], "ok")]
    /\ UNCHANGED <<photos, seq, webFiles, thumbFiles, issued, session, clock,
                   tzdata, ADMIN_PASSWORD, failures>>

admin(s, c, limit) ==
    /\ canStart(s, limit)
    /\ LET r == [Idle EXCEPT !.kind = "admin", !.pre = Snapshot,
                             !.authed = session[c]]
       IN  reqs' = [reqs EXCEPT ![s] =
                      IF ~authorized(c) THEN done(r, "redirect_login")
                      ELSE done([r EXCEPT !.resp = orderByIdDesc(photos)], "ok")]
    /\ UNCHANGED <<photos, seq, webFiles, thumbFiles, issued, session, clock,
                   tzdata, ADMIN_PASSWORD, failures>>

-----------------------------------------------------------------------------
(* admin_upload *)

\* names that uploads already past the checks of the file are still to draw
namesPending == 2 * Cardinality({t \in Slots : reqs[t].kind = "upload"
                                               /\ reqs[t].pc = "validate"})

\* lines 188-201: the gate, the form fields and the checks of the file
upload_begin(s, c, file, form, limit) ==
    /\ canStart(s, limit)
    /\ issued + namesPending + 2 <= 2 * MaxUploads
    /\ LET r == [Idle EXCEPT !.kind = "upload", !.pre = Snapshot,
                             !.authed = session[c]]
           f == [r EXCEPT !.file = file, !.at = clock,
                          !.rawTitle = form.title, !.rawDate = form.date,
                          !.title = formTitle(form.title), !.date = formDate(form.date)]
       IN  reqs' = [reqs EXCEPT ![s] =
                      IF ~authorized(c) THEN done(r, "redirect_login")
                      ELSE IF file = NoFile \/ file = <<>> THEN done(f, "no_file")
                      ELSE IF ~allowed_file(file) THEN done(f, "bad_ext")
                      ELSE [f EXCEPT !.pc = "validate"]]
    /\ UNCHANGED <<photos, seq, webFiles, thumbFiles, issued, session, clock,
                   tzdata, ADMIN_PASSWORD, failures>>

\* mutant: the stream is not validated, an undecodable one goes on to be saved
upload_validate_unchecked(s, img) ==
    /\ reqs[s].kind = "upload" /\ reqs[s].pc = "validate"
    /\ reqs' = [reqs EXCEPT ![s] =
                  [@ EXCEPT !.decoded = TRUE, !.imgValid = img # NotAnImage,
                            !.img = IF img = NotAnImage THEN <<640, 480>> ELSE img,
                            !.web_name = _unique(1), !.thumb_name = _unique(2),
                            !.pc = "save_web"]]
    /\ issued' = issued + 2
    /\ UNCHANGED <<photos, seq, webFiles, thumbFiles, session, clock, tzdata,
                   ADMIN_PASSWORD, failures>>

\* lines 204-208: _open_validate on a stream that decodes as an image of
\* some size or does not decode, then the two names
upload_validate(s, img) ==
    /\ reqs[s].kind = "upload" /\ reqs[s].pc = "validate"
    /\ IF img # NotAnImage
       THEN /\ reqs' = [reqs EXCEPT ![s] =
                          [@ EXCEPT !.decoded = TRUE, !.imgValid = TRUE,
                                    !.img = img,
                                    !.web_name = _unique(1),
                                    !.thumb_name = _unique(2), !.pc = "save_web"]]
            /\ issued' = issued + 2
            /\ UNCHANGED failures
       ELSE /\ reqs' = [reqs EXCEPT ![s] = done([@ EXCEPT !.decoded = TRUE], "failed")]
            /\ failures' = failed
            /\ UNCHANGED issued
    /\ UNCHANGED <<photos, seq, webFiles, thumbFiles, session, clock, tzdata,
                   ADMIN_PASSWORD>>

\* lines 82-91, _save on an image of this size: whether it resizes, whether
\* the resize raises, and the size of the image handed to img.save.
\* Image.resize raises ValueError for a width or height below 1, in the
\* LANCZOS call and again in the fallback of the except branch.
_save(size, max_side) ==
    LET resizes == flessOne(scaleOf(size, max_side))
        new == newSize(size, max_side)
    IN  [raises |-> resizes /\ (new[1] < 1 \/ new[2] < 1),
         size |-> IF resizes THEN new ELSE size]

\* line 210: _save writes the display file, or raises; a failed write may
\* leave the file behind
upload_save_web(s) ==
    /\ reqs[s].kind = "upload" /\ reqs[s].pc = "save_web"
    /\ LET out == _save(reqs[s].img, WEB_MAX_SIDE)
       IN  IF out.raises
           THEN /\ reqs' = [reqs EXCEPT ![s] = done(@, "failed")]
                /\ failures' = failed
                /\ UNCHANGED webFiles
           ELSE \/ /\ webFiles' = webFiles \cup {reqs[s].web_name}
                   /\ reqs' = [reqs EXCEPT ![s] =
                                 [@ EXCEPT !.pc = "save_thumb",
                                           !.web_size = out.size]]
                   /\ UNCHANGED failures
                \/ /\ mayFail
                   /\ \E left \in BOOLEAN :
                         webFiles' = IF left THEN webFiles \cup {reqs[s].web_name}
                                     ELSE webFiles
                   /\ reqs' = [reqs EXCEPT ![s] =
                                 done([@ EXCEPT !.fault = TRUE], "failed")]
                   /\ failures' = failed
    /\ UNCHANGED <<photos, seq, thumbFiles, issued, session, clock, tzdata,
                   ADMIN_PASSWORD>>

\* mutant: the thumbnail is left for later, the INSERT comes first
upload_save_thumb_deferred(s) ==
    /\ reqs[s].kind = "upload" /\ reqs[s].pc = "save_thumb"
    /\ reqs' = [reqs EXCEPT ![s].pc = "insert"]
    /\ UNCHANGED <<photos, seq, webFiles, thumbFiles, issued, session, clock,
                   tzdata, ADMIN_PASSWORD, failures>>

\* line 211: _save writes the thumbnail, or raises
upload_save_thumb(s) ==
    /\ reqs[s].kind = "upload" /\ reqs[s].pc = "save_thumb"
    /\ LET out == _save(reqs[s].img, THUMB_MAX_SIDE)
       IN  IF out.raises
           THEN /\ reqs' = [reqs EXCEPT ![s] = done(@, "failed")]
                /\ failures' = failed
                /\ UNCHANGED thumbFiles
           ELSE \/ /\ thumbFiles' = thumbFiles \cup {reqs[s].thumb_name}
                   /\ reqs' = [reqs EXCEPT ![s] =
                                 [@ EXCEPT !.pc = "insert",
                                           !.thumb_size = out.size]]
                   /\ UNCHANGED failures
                \/ /\ mayFail
                   /\ \E left \in BOOLEAN :
                         thumbFiles' = IF left
                                       THEN thumbFiles \cup {reqs[s].thumb_name}
                                       ELSE thumbFiles
                   /\ reqs' = [reqs EXCEPT ![s] =
                                 done([@ EXCEPT !.fault = TRUE], "failed")]
                   /\ failures' = failed
    /\ UNCHANGED <<photos, seq, webFiles, issued, session, clock, tzdata,
                   ADMIN_PASSWORD>>

\* mutant: the id column without AUTOINCREMENT, one more than the largest id
\* in the table
newRowAfterLargest(r) ==
    [id |-> IF photos = {} THEN 1
            ELSE 1 + CHOOSE i \in {q.id : q \in photos} :
                        \A q \in photos : q.id <= i,
     filename_web |-> r.web_name, filename_thumb |-> r.thumb_name,
     title |-> r.title, date |-> r.date, uploaded_at |-> clock]

\* the row INSERT adds: AUTOINCREMENT gives it the id after the largest ever used
newRow(r) == [id |-> seq + 1, filename_web |-> r.web_name,
              filename_thumb |-> r.thumb_name, title |-> r.title,
              date |-> r.date, uploaded_at |-> clock]

\* mutant: an INSERT that raises has inserted its row all the same
upload_insert_norollback(s) ==
    /\ reqs[s].kind = "upload" /\ reqs[s].pc = "insert"
    /\ photos' = photos \cup {newRow(reqs[s])}
    /\ seq' = seq + 1
    /\ \/ /\ reqs' = [reqs EXCEPT ![s] = done(@, "ok")]
          /\ UNCHANGED failures
       \/ /\ mayFail
          /\ reqs' = [reqs EXCEPT ![s] = done([@ EXCEPT !.fault = TRUE], "failed")]
          /\ failures' = failed
    /\ UNCHANGED <<webFiles, thumbFiles, issued, session, clock, tzdata,
                   ADMIN_PASSWORD>>

\* lines 213-217: the INSERT commits, or raises and nothing is inserted
upload_insert(s) ==
    /\ reqs[s].kind = "upload" /\ reqs[s].pc = "insert"
    /\ \/ /\ photos' = photos \cup {newRow(reqs[s])}
          /\ seq' = seq + 1
          /\ reqs' = [reqs EXCEPT ![s] = done(@, "ok")]
          /\ UNCHANGED failures
       \/ /\ mayFail
          /\ reqs' = [reqs EXCEPT ![s] = done([@ EXCEPT !.fault = TRUE], "failed")]
          /\ failures' = failed
          /\ UNCHANGED <<photos, seq>>
    /\ UNCHANGED <<webFiles, thumbFiles, issued, session, clock, tzdata,
                   ADMIN_PASSWORD>>

-----------------------------------------------------------------------------
(* admin_update *)

\* mutant: the UPDATE has lost its WHERE clause
updateAllRows(title, date, pid) ==
    {[r EXCEPT !.title = title, !.date = date] : r \in photos}

\* mutant: the UPDATE sets the title and leaves the date to a later statement
updateRowsTitleOnly(title, date, pid) ==
    {IF r.id = pid THEN [r EXCEPT !.title = title] ELSE r : r \in photos}

\* UPDATE photos SET title=?, date=? WHERE id=?
updateRows(title, date, pid) ==
    {IF r.id = pid THEN [r EXCEPT !.title = title, !.date = date] ELSE r : r \in photos}

\* The whole handler: the gate, the form fields and the one UPDATE, which is
\* its only access to the table.
admin_update(s, c, pid, form, limit) ==
    /\ canStart(s, limit)
    /\ LET r == [Idle EXCEPT !.kind = "update", !.pre = Snapshot,
                             !.authed = session[c], !.pid = pid]
           title == formTitle(form.title)
           date_str == formDate(form.date)
       IN  IF ~authorized(c)
           THEN /\ reqs' = [reqs EXCEPT ![s] = done(r, "redirect_login")]
                /\ UNCHANGED photos
           ELSE /\ photos' = updateRows(title, date_str, pid)
                /\ reqs' = [reqs EXCEPT ![s] =
                              done([r EXCEPT !.at = clock,
                                             !.rawTitle = form.title,
                                             !.rawDate = form.date,
                                             !.title = title, !.date = date_str],
                                   "ok")]
    /\ UNCHANGED <<seq, webFiles, thumbFiles, issued, session, clock, tzdata,
                   ADMIN_PASSWORD, failures>>

-----------------------------------------------------------------------------
(* admin_delete *)

\* lines 239-240: the gate
delete_begin(s, c, pid, limit) ==
    /\ canStart(s, limit)
    /\ LET r == [Idle EXCEPT !.kind = "delete", !.pre = Snapshot,
                             !.authed = session[c], !.pid = pid]
       IN  reqs' = [reqs EXCEPT ![s] =
                      IF ~authorized(c) THEN done(r, "redirect_login")
                      ELSE [r EXCEPT !.pc = "select"]]
    /\ UNCHANGED <<photos, seq, webFiles, thumbFiles, issued, session, clock,
                   tzdata, ADMIN_PASSWORD, failures>>

\* mutant: an id without a row ends the request in an error
delete_select_404(s) ==
    /\ reqs[s].kind = "delete" /\ reqs[s].pc = "select"
    /\ LET row == selectById(reqs[s].pid)
       IN  reqs' = [reqs EXCEPT ![s] =
                      IF row = {} THEN done(@, "error")
                      ELSE [@ EXCEPT !.row = row, !.pc = "remove_web"]]
    /\ UNCHANGED <<photos, seq, webFiles, thumbFiles, issued, session, clock,
                   tzdata, ADMIN_PASSWORD, failures>>

\* lines 242-243: the SELECT; without a row the handler is finished
delete_select(s) ==
    /\ reqs[s].kind = "delete" /\ reqs[s].pc = "select"
    /\ LET row == selectById(reqs[s].pid)
       IN  reqs' = [reqs EXCEPT ![s] =
                      IF row = {} THEN done(@, "ok")
                      ELSE [@ EXCEPT !.row = row, !.pc = "remove_web"]]
    /\ UNCHANGED <<photos, seq, webFiles, thumbFiles, issued, session, clock,
                   tzdata, ADMIN_PASSWORD, failures>>

\* os.remove(p) inside try/except FileNotFoundError: the directory afterwards
\* and whether another OSError escaped.  A file that is present is removed or
\* the removal raises; a file that is absent raises FileNotFoundError, which
\* is swallowed.
removeOutcomes(files, name) ==
    IF name \in files
    THEN {[files |-> files \ {name}, raised |-> FALSE]}
         \cup (IF mayFail THEN {[files |-> files, raised |-> TRUE]} ELSE {})
    ELSE {[files |-> files, raised |-> FALSE]}

\* mutant: every error of os.remove is swallowed and the loop goes on
delete_remove_web_swallow(s) ==
    /\ reqs[s].kind = "delete" /\ reqs[s].pc = "remove_web"
    /\ \E row \in reqs[s].row :
       \E o \in removeOutcomes(webFiles, row.filename_web) :
          /\ webFiles' = o.files
          /\ reqs' = [reqs EXCEPT ![s] =
                        [@ EXCEPT !.fault = o.raised, !.pc = "remove_thumb"]]
          /\ failures' = IF o.raised THEN failed ELSE failures
    /\ UNCHANGED <<photos, seq, thumbFiles, issued, session, clock, tzdata,
                   ADMIN_PASSWORD>>

\* lines 244-249, first pass of the loop: the display file
delete_remove_web(s) ==
    /\ reqs[s].kind = "delete" /\ reqs[s].pc = "remove_web"
    /\ \E row \in reqs[s].row :
       \E o \in removeOutcomes(webFiles, row.filename_web) :
          /\ webFiles' = o.files
          /\ reqs' = [reqs EXCEPT ![s] =
                        IF o.raised THEN done([@ EXCEPT !.fault = TRUE], "error")
                        ELSE [@ EXCEPT !.pc = "remove_thumb"]]
          /\ failures' = IF o.raised THEN failed ELSE failures
    /\ UNCHANGED <<photos, seq, thumbFiles, issued, session, clock, tzdata,
                   ADMIN_PASSWORD>>

\* mutant: the loop stops after the display file, the thumbnail stays
delete_remove_thumb_skip(s) ==
    /\ reqs[s].kind = "delete" /\ reqs[s].pc = "remove_thumb"
    /\ reqs' = [reqs EXCEPT ![s].pc = "delete"]
    /\ UNCHANGED <<photos, seq, webFiles, thumbFiles, issued, session, clock,
                   tzdata, ADMIN_PASSWORD, failures>>

\* lines 244-249, second pass of the loop: the thumbnail
delete_remove_thumb(s) ==
    /\ reqs[s].kind = "delete" /\ reqs[s].pc = "remove_thumb"
    /\ \E row \in reqs[s].row :
       \E o \in removeOutcomes(thumbFiles, row.filename_thumb) :
          /\ thumbFiles' = o.files
          /\ reqs' = [reqs EXCEPT ![s] =
                        IF o.raised THEN done([@ EXCEPT !.fault = TRUE], "error")
                        ELSE [@ EXCEPT !.pc = "delete"]]
          /\ failures' = IF o.raised THEN failed ELSE failures
    /\ UNCHANGED <<photos, seq, webFiles, issued, session, clock, tzdata,
                   ADMIN_PASSWORD>>

\* DELETE FROM photos WHERE id=?
deleteRows(pid) == {r \in photos : r.id # pid}

\* line 250 and the commit at the end of the with block
delete_stmt(s) ==
    /\ reqs[s].kind = "delete" /\ reqs[s].pc = "delete"
    /\ photos' = deleteRows(reqs[s].pid)
    /\ reqs' = [reqs EXCEPT ![s] = done(@, "ok")]
    /\ UNCHANGED <<seq, webFiles, thumbFiles, issued, session, clock, tzdata,
                   ADMIN_PASSWORD, failures>>

-----------------------------------------------------------------------------
(* The specifications *)

\* everything a request can carry
AllInputs == [passwords |-> Passwords, files |-> Filenames, forms |-> Forms,
              images |-> Images \cup {NotAnImage}, pids |-> Pids]

\* a step of the server with at most limit requests in flight, their inputs
\* drawn from the pools of in
NextOf(limit, in) ==
    \/ Tick
    \/ \E c \in Sessions, pw \in in.passwords : login_alias(c, pw, limit)
    \/ \E c \in Sessions, pw \in in.passwords : admin_login(c, pw, limit)
    \/ \E c \in Sessions : admin_logout(c, limit)
    \/ \E s \in Slots : index(s, limit)
    \/ \E s \in Slots, c \in Sessions : admin(s, c, limit)
    \/ \E s \in Slots, c \in Sessions, file \in in.files, form \in in.forms :
          upload_begin(s, c, file, form, limit)
    \/ \E s \in Slots, img \in in.images : upload_validate(s, img)
    \/ \E s \in Slots : upload_save_web(s)
    \/ \E s \in Slots : upload_save_thumb(s)
    \/ \E s \in Slots : upload_insert(s)
    \/ \E s \in Slots, c \in Sessions, pid \in in.pids, form \in in.forms :
          admin_update(s, c, pid, form, limit)
    \/ \E s \in Slots, c \in Sessions, pid \in in.pids :
          delete_begin(s, c, pid, limit)
    \/ \E s \in Slots : delete_select(s)
    \/ \E s \in Slots : delete_remove_web(s)
    \/ \E s \in Slots : delete_remove_thumb(s)
    \/ \E s \in Slots : delete_stmt(s)
    \/ \E s \in Slots : Respond(s)

NextL(limit) == NextOf(limit, AllInputs)

\* requests are handled one at a time
Next == NextL(1)

Spec == Init /\ [][Next]_vars

\* The same server under either configuration of the password: the default
\* one, or ADMIN_PASSWORD set to the empty string in the environment.
InitA ==
    /\ Start
    /\ tzdata = TRUE
    /\ ADMIN_PASSWORD \in {DefaultPassword, <<>>}

SpecA == InitA /\ [][Next]_vars

\* The server handles requests in threads: up to two of the requests that
\* change the table or the files are in flight and their steps interleave.
\* They carry one file name, one image and one of two forms.
FewInputs == [passwords |-> {DefaultPassword},
              files |-> {<<"a", ".", "j", "p", "g">>},
              forms |-> {[title |-> NoValue, date |-> NoValue],
                         [title |-> <<"T">>, date |-> <<"0", "2">>]},
              images |-> {<<640, 480>>},
              pids |-> {1}]

NextC ==
    \/ \E c \in Sessions, pw \in FewInputs.passwords : admin_login(c, pw, 2)
    \/ \E s \in Slots, c \in Sessions, file \in FewInputs.files,
          form \in FewInputs.forms : upload_begin(s, c, file, form, 2)
    \/ \E s \in Slots, img \in FewInputs.images : upload_validate(s, img)
    \/ \E s \in Slots : upload_save_web(s)
    \/ \E s \in Slots : upload_save_thumb(s)
    \/ \E s \in Slots : upload_insert(s)
    \/ \E s \in Slots, c \in Sessions, pid \in FewInputs.pids,
          form \in FewInputs.forms : admin_update(s, c, pid, form, 2)
    \/ \E s \in Slots, c \in Sessions, pid \in FewInputs.pids :
          delete_begin(s, c, pid, 2)
    \/ \E s \in Slots : delete_select(s)
    \/ \E s \in Slots : delete_remove_web(s)
    \/ \E s \in Slots : delete_remove_thumb(s)
    \/ \E s \in Slots : delete_stmt(s)
    \/ \E s \in Slots : Respond(s)

\* with the timezone data installed
InitC == Init /\ tzdata = TRUE

SpecC == InitC /\ [][NextC]_vars

-----------------------------------------------------------------------------
(* Properties *)

Done(s, kind) == reqs[s].kind = kind /\ reqs[s].pc = "done"

\* the table and both directories are as they were when the request arrived
Untouched(s) == Snapshot = reqs[s].pre

Ids(rows) == {r.id : r \in rows}

HasFiles(r) == r.filename_web \in webFiles /\ r.filename_thumb \in thumbFiles

\* a delete of the record with this id has arrived and its response is not out
DeleteInProgress(id) ==
    \E s \in Slots : reqs[s].kind = "delete" /\ reqs[s].pid = id

UploadInProgress ==
    \E s \in Slots : reqs[s].kind = "upload" /\ reqs[s].pc # "done"

\* C1: every record of the table has its display file and its thumbnail on
\* disk, unless a delete of that record is in progress.
C1_RecordsHaveFiles ==
    \A r \in photos : HasFiles(r) \/ DeleteInProgress(r.id)

\* the names of all records are pairwise distinct, and the directories hold
\* exactly the files the records name
NamesDistinct ==
    Cardinality({r.filename_web : r \in photos} \cup {r.filename_thumb : r \in photos})
        = 2 * Cardinality(photos)

FilesMatchTable ==
    /\ webFiles = {r.filename_web : r \in photos}
    /\ thumbFiles = {r.filename_thumb : r \in photos}

\* C2 as stated: whenever no request has failed and no delete is in progress,
\* the names are distinct and the files are exactly those of the records.
C2_ExactWhenNoDelete ==
    (failures = 0 /\ \A id \in Pids : ~DeleteInProgress(id))
        => (NamesDistinct /\ FilesMatchTable)

\* C2, amended: whenever no request has failed and neither a delete nor an
\* upload is in progress, the names of the records are pairwise distinct and
\* the files in the two directories are exactly those the records name.
C2_ExactWhenQuiet ==
    (failures = 0 /\ (\A id \in Pids : ~DeleteInProgress(id)) /\ ~UploadInProgress)
        => (NamesDistinct /\ FilesMatchTable)

C2_Witness ==
    /\ failures = 0
    /\ InFlight = {}
    /\ Cardinality(photos) = 2

\* C3: an upload that fails (at validation, at writing a file or at the
\* INSERT) leaves the table as it was; files may have been added, none removed.
C3_FailedUploadKeepsTable ==
    \A s \in Slots :
        (Done(s, "upload") /\ reqs[s].outcome = "failed")
            => /\ photos = reqs[s].pre.photos
               /\ reqs[s].pre.web \subseteq webFiles
               /\ reqs[s].pre.thumb \subseteq thumbFiles

\* an upload that failed at the INSERT, both files written
C3_Witness ==
    \E s \in Slots :
        /\ Done(s, "upload") /\ reqs[s].outcome = "failed"
        /\ reqs[s].web_name \in webFiles
        /\ reqs[s].thumb_name \in thumbFiles
        /\ photos # {}

\* C4: an upload whose stream does not decode as an image fails and leaves
\* the table and both directories as they were.
C4_UndecodableChangesNothing ==
    \A s \in Slots :
        (Done(s, "upload") /\ reqs[s].decoded /\ ~reqs[s].imgValid)
            => (reqs[s].outcome = "failed" /\ Untouched(s))

C4_Witness ==
    \E s \in Slots :
        /\ Done(s, "upload") /\ reqs[s].decoded /\ ~reqs[s].imgValid
        /\ reqs[s].file = <<"b", ".", "P", "N", "G">>
        /\ photos # {}

\* the file fields of the model that name no file, or a file whose extension
\* is not one of .jpg .jpeg .png .gif .webp
RejectedFiles == {NoFile, <<>>,
                  <<"a", ".", "t", "x", "t">>,
                  <<".", "g", "i", "f">>,
                  <<"a", ".", "j", "p", "g", "/", "b">>}

\* C5: an authenticated upload without a file, with an empty filename or with
\* an extension outside the allow-list is rejected before the stream is
\* decoded and before any name is generated, and changes nothing; a filename
\* with an allowed extension in upper case is not rejected.
C5_BadFileRejectedEarly ==
    \A s \in Slots :
        (reqs[s].kind = "upload" /\ reqs[s].authed)
            => /\ reqs[s].file \in RejectedFiles
                  => /\ reqs[s].pc = "done"
                     /\ reqs[s].outcome \in {"no_file", "bad_ext"}
                     /\ ~reqs[s].decoded
                     /\ reqs[s].web_name = 0 /\ reqs[s].thumb_name = 0
                     /\ Untouched(s)
               /\ reqs[s].file \notin RejectedFiles
                  => reqs[s].outcome \notin {"no_file", "bad_ext"}

C5_Witness ==
    \E s \in Slots :
        /\ Done(s, "upload") /\ reqs[s].authed
        /\ reqs[s].file = <<"a", ".", "t", "x", "t">>
        /\ reqs[s].outcome = "bad_ext"
        /\ photos # {}

\* C6: a request to upload, update, delete or list for the administrator from
\* a session whose flag is not set is redirected to the login page and
\* changes neither the table nor the directories.
C6_UnauthedChangesNothing ==
    \A s \in Slots :
        (reqs[s].kind \in {"upload", "update", "delete", "admin"} /\ ~reqs[s].authed)
            => /\ reqs[s].pc = "done"
               /\ reqs[s].outcome = "redirect_login"
               /\ reqs[s].resp = <<>>
               /\ Untouched(s)

\* the delete of an existing record, asked for without the flag
C6_Witness ==
    \E s \in Slots :
        /\ Done(s, "delete") /\ ~reqs[s].authed
        /\ reqs[s].pid \in Ids(photos)

\* C7: a delete of an existing record that runs to its end leaves neither of
\* the record's files on disk and no record with that id in the table or in
\* a listing, also when a file was missing beforehand; when the DELETE is
\* about to run, both files are already gone.
C7_DeleteRemovesAll ==
    \A s \in Slots :
        (reqs[s].kind = "delete" /\ reqs[s].row # {})
            => \A row \in reqs[s].row :
                 /\ reqs[s].pc = "delete" \/ (reqs[s].pc = "done" /\ reqs[s].outcome = "ok")
                      => /\ row.filename_web \notin webFiles
                         /\ row.filename_thumb \notin thumbFiles
                 /\ (reqs[s].pc = "done" /\ reqs[s].outcome = "ok")
                      => /\ reqs[s].pid \notin Ids(photos)
                         /\ \A i \in 1..Len(indexGroups) :
                              \A k \in 1..Len(indexGroups[i].items) :
                                 indexGroups[i].items[k].id # reqs[s].pid
                         /\ photos = {r \in reqs[s].pre.photos : r.id # reqs[s].pid}
                 /\ reqs[s].pc \in {"remove_web", "remove_thumb", "delete"}
                      => reqs[s].pid \in Ids(photos)

\* a finished delete of a record whose display file was missing beforehand
C7_Witness ==
    \E s \in Slots :
        /\ Done(s, "delete") /\ reqs[s].outcome = "ok"
        /\ \E row \in reqs[s].row :
              /\ row.filename_web \notin reqs[s].pre.web
              /\ row.filename_thumb \in reqs[s].pre.thumb

\* C8: an authenticated delete of an id without a record ends without an
\* error and changes nothing; a delete that ended without an error leaves no
\* record with its id, so that deleting the same id again is that case.
C8_DeleteAbsentIsNoOp ==
    \A s \in Slots :
        (Done(s, "delete") /\ reqs[s].authed)
            => /\ reqs[s].pid \notin Ids(reqs[s].pre.photos)
                    => (reqs[s].outcome = "ok" /\ Untouched(s))
               /\ reqs[s].outcome = "ok" => reqs[s].pid \notin Ids(photos)

\* the delete of an id that was assigned once and is deleted already
C8_Witness ==
    \E s \in Slots :
        /\ Done(s, "delete") /\ reqs[s].authed /\ reqs[s].outcome = "ok"
        /\ reqs[s].pid \notin Ids(reqs[s].pre.photos)
        /\ reqs[s].pid <= seq
        /\ photos # {}

\* the places (i, k) of the listing g that hold record r
PlacesOf(g, r) ==
    {p \in {<<i, k>> : i \in 1..Len(g), k \in 1..2 * (MaxUploads + 1)} :
        p[2] <= Len(g[p[1]].items) /\ g[p[1]].items[p[2]] = r}

\* C9: the index lists groups in strictly descending order of date, the
\* members of a group in descending order of id, and every record of the
\* table exactly once, in the group of its date.
C9_ListingGrouped ==
    \A s \in Slots :
        Done(s, "index") =>
            LET g == reqs[s].resp
                rows == reqs[s].pre.photos
            IN  /\ \A i, j \in 1..Len(g) : i < j => TextLess(g[j].date, g[i].date)
                /\ \A i \in 1..Len(g) :
                     /\ \A k, l \in 1..Len(g[i].items) :
                           k < l => g[i].items[k].id > g[i].items[l].id
                     /\ \A k \in 1..Len(g[i].items) :
                           /\ g[i].items[k] \in rows
                           /\ g[i].items[k].date = g[i].date
                /\ \A r \in rows : Cardinality(PlacesOf(g, r)) = 1

\* a listing of two days, the record inserted first on the later day
C9_Witness ==
    \E s \in Slots :
        /\ Done(s, "index")
        /\ Len(reqs[s].resp) = 2
        /\ reqs[s].resp[1].items[1].id < reqs[s].resp[2].items[1].id

\* a form value that is absent, empty or whitespace only
Blank(v) == v = NoValue \/ \A i \in 1..Len(v) : v[i] \in Whitespace

\* t is v without the whitespace at its two ends
Trimmed(t, v) ==
    /\ t # <<>> /\ t[1] \notin Whitespace /\ t[Len(t)] \notin Whitespace
    /\ \E i \in 1..Len(v) :
          /\ i + Len(t) - 1 <= Len(v)
          /\ SubSeq(v, i, i + Len(t) - 1) = t
          /\ \A k \in 1..Len(v) : (k < i \/ k > i + Len(t) - 1) => v[k] \in Whitespace

\* the row an upload or an edit has written
WrittenRows(s) ==
    IF reqs[s].kind = "update" THEN {r \in photos : r.id = reqs[s].pid}
    ELSE {r \in photos : r.filename_web = reqs[s].web_name}

Wrote(s) == /\ reqs[s].kind \in {"update", "upload"}
            /\ reqs[s].pc = "done" /\ reqs[s].outcome = "ok"

\* C10 as stated: the stored title is the placeholder for a blank title and
\* the submitted string otherwise; the stored date is the Tokyo date of the
\* request for a blank date and the submitted string otherwise.
C10_StoredVerbatim ==
    \A s \in Slots : Wrote(s) =>
        \A r \in WrittenRows(s) :
            /\ r.title = IF Blank(reqs[s].rawTitle) THEN Placeholder
                         ELSE reqs[s].rawTitle
            /\ r.date = IF Blank(reqs[s].rawDate) THEN isoformat(tokyoDay(reqs[s].at))
                        ELSE reqs[s].rawDate

\* C10, amended: an edit of an existing record, and an upload, store the
\* placeholder for a title that is absent or blank and otherwise the title
\* without the whitespace at its ends; for a date that is absent or blank
\* they store the date of the request in Tokyo, or in UTC when the time zone
\* data is not available, and otherwise the date without the whitespace at
\* its ends.
C10_StoredStripped ==
    \A s \in Slots : Wrote(s) =>
        \A r \in WrittenRows(s) :
            /\ IF Blank(reqs[s].rawTitle) THEN r.title = Placeholder
               ELSE Trimmed(r.title, reqs[s].rawTitle)
            /\ IF Blank(reqs[s].rawDate)
               THEN r.date = isoformat(IF tzdata THEN tokyoDay(reqs[s].at)
                                       ELSE utcDay(reqs[s].at))
               ELSE Trimmed(r.date, reqs[s].rawDate)

\* an edit of an existing record with a padded title and a padded date
C10_Witness ==
    \E s \in Slots :
        /\ Wrote(s) /\ reqs[s].kind = "update"
        /\ WrittenRows(s) # {}
        /\ reqs[s].rawTitle = <<" ", "T", " ">>
        /\ reqs[s].rawDate = <<" ", "0", "2", " ">>

-----------------------------------------------------------------------------
\* the record of this table with this id, as a set of at most one row
RowsOf(rows, id) == {r \in rows : r.id = id}

\* the columns an edit does not set
Fixed(r) == [id |-> r.id, filename_web |-> r.filename_web,
             filename_thumb |-> r.filename_thumb, uploaded_at |-> r.uploaded_at]

\* C11: an edit of id p by an authenticated session ends without an error and
\* changes at most the title and the date of the record p: the record keeps
\* its id, both file names and its upload time, every other record and both
\* directories are as they were, and without a record p the table is as it
\* was.
C11_EditFrame ==
    \A s \in Slots :
       Done(s, "update") /\ reqs[s].authed
       => /\ reqs[s].outcome = "ok"
          /\ webFiles = reqs[s].pre.web /\ thumbFiles = reqs[s].pre.thumb
          /\ {r \in photos : r.id # reqs[s].pid}
               = {r \in reqs[s].pre.photos : r.id # reqs[s].pid}
          /\ {Fixed(r) : r \in RowsOf(photos, reqs[s].pid)}
               = {Fixed(r) : r \in RowsOf(reqs[s].pre.photos, reqs[s].pid)}
          /\ (RowsOf(reqs[s].pre.photos, reqs[s].pid) = {}
                => photos = reqs[s].pre.photos)

\* an edit has rewritten one record of a table that holds two
C11_Witness ==
    \E s \in Slots :
       /\ Done(s, "update") /\ reqs[s].authed
       /\ Cardinality(photos) = 2
       /\ RowsOf(photos, reqs[s].pid) # {}
       /\ photos # reqs[s].pre.photos

-----------------------------------------------------------------------------
\* the upload in slot s has added exactly one record and that record's two
\* files, under names that were not in use, and has changed nothing else
AddedOne(s) ==
    \E r \in photos :
       /\ r \notin reqs[s].pre.photos
       /\ photos = reqs[s].pre.photos \cup {r}
       /\ r.filename_web = reqs[s].web_name /\ r.filename_thumb = reqs[s].thumb_name
       /\ r.filename_web # r.filename_thumb
       /\ r.filename_web \notin reqs[s].pre.web
       /\ r.filename_thumb \notin reqs[s].pre.thumb
       /\ webFiles = reqs[s].pre.web \cup {r.filename_web}
       /\ thumbFiles = reqs[s].pre.thumb \cup {r.filename_thumb}

\* C12: an authenticated upload of a decodable image of any size under an
\* allowed extension, with no failure of the file system or the table,
\* succeeds: it adds exactly two files, one per directory under distinct
\* names, and exactly one record that names them, and changes nothing else.
C12_DecodableUploadSucceeds ==
    \A s \in Slots :
       Done(s, "upload") /\ reqs[s].authed /\ reqs[s].imgValid /\ ~reqs[s].fault
       => reqs[s].outcome = "ok" /\ AddedOne(s)

-----------------------------------------------------------------------------
\* floor(w * scale) and floor(h * scale) for scale = min(max_side / max(w, h), 1)
\* in exact arithmetic
floorScaled(size, max_side) ==
    LET m == Max2(size[1], size[2])
    IN  IF m <= max_side THEN size
        ELSE <<(size[1] * max_side) \div m, (size[2] * max_side) \div m>>

\* the sizes of the files the upload in slot s has written so far, each with
\* the bound it was written under
WrittenSizes(s) ==
    (IF reqs[s].web_size # <<0, 0>>
     THEN {[size |-> reqs[s].web_size, max_side |-> WEB_MAX_SIDE]} ELSE {})
    \cup (IF reqs[s].thumb_size # <<0, 0>>
          THEN {[size |-> reqs[s].thumb_size, max_side |-> THUMB_MAX_SIDE]} ELSE {})

\* C13: the image _save writes for an image of size (w, h) under the bound
\* max_side has the size (floor(w * scale), floor(h * scale)) with
\* scale = min(max_side / max(w, h), 1).
C13_SizeIsFloorOfScaled ==
    \A s \in Slots : \A f \in WrittenSizes(s) :
       f.size = floorScaled(reqs[s].img, f.max_side)

\* what does hold of every size written: no edge is longer than the bound or
\* than the longest edge of the original, each edge is the exact floor or
\* one less, and an image within the bound keeps its size
C13_SizeWithinBounds ==
    \A s \in Slots : \A f \in WrittenSizes(s) :
       LET m == Max2(reqs[s].img[1], reqs[s].img[2])
           exact == floorScaled(reqs[s].img, f.max_side)
       IN  /\ Max2(f.size[1], f.size[2]) <= f.max_side
           /\ Max2(f.size[1], f.size[2]) <= m
           /\ \A i \in 1..2 : f.size[i] \in {exact[i], exact[i] - 1}
           /\ (m <= f.max_side => f.size = reqs[s].img)

-----------------------------------------------------------------------------
\* C14: seq, the largest id ever assigned, never decreases; a record that
\* enters the table gets an id above it, so an id that differs from every
\* id assigned before, those of deleted records included; and a record that
\* stays in the table keeps its id.
C14_IdsNeverReused ==
    [][ /\ seq' >= seq
        /\ \A r \in photos : r.id <= seq
        /\ \A q \in photos' :
              IF \E r \in photos : r.filename_web = q.filename_web
              THEN \A r \in photos : r.filename_web = q.filename_web => q.id = r.id
              ELSE seq < q.id /\ q.id <= seq' ]_vars

\* an upload into the empty table after the record with the highest id, 1,
\* was deleted: the new record has id 2
C14_Witness ==
    \E s \in Slots :
       /\ Done(s, "upload") /\ reqs[s].outcome = "ok"
       /\ reqs[s].pre.photos = {}
       /\ Ids(photos) = {2}

-----------------------------------------------------------------------------
\* the record of the upload in slot s is in the table
Inserted(s) == \E q \in photos : q.filename_web = reqs[s].web_name

Encoded(size) == size # <<0, 0>>

\* C15 as stated: the names are generated after both artifacts have been
\* resized and encoded.
C15_EncodedBeforeNamed ==
    \A s \in Slots :
       reqs[s].kind = "upload" /\ reqs[s].web_name # 0
       => Encoded(reqs[s].web_size) /\ Encoded(reqs[s].thumb_size)

\* C15: an upload validates the image, then generates the two names, then
\* resizes and encodes the display file and after it the thumbnail, each into
\* its file, then inserts the record: no name before the image is validated,
\* no file and no encoding before the names, no record before both files are
\* written.
C15_UploadOrder ==
    \A s \in Slots :
       reqs[s].kind = "upload"
       => /\ reqs[s].pc = "validate" => ~reqs[s].decoded /\ reqs[s].web_name = 0
          /\ reqs[s].web_name # 0 => reqs[s].decoded /\ reqs[s].imgValid
          /\ reqs[s].web_name \in webFiles \/ reqs[s].thumb_name \in thumbFiles
               => reqs[s].imgValid
          /\ Encoded(reqs[s].web_size)
               => reqs[s].web_name # 0 /\ reqs[s].web_name \in webFiles
          /\ Encoded(reqs[s].thumb_size)
               => Encoded(reqs[s].web_size) /\ reqs[s].thumb_name \in thumbFiles
          /\ reqs[s].pc = "insert" \/ Inserted(s)
               => Encoded(reqs[s].web_size) /\ Encoded(reqs[s].thumb_size)
          /\ reqs[s].outcome = "ok" => Inserted(s)

\* an upload of the 2105 x 600 image has succeeded, both files resized
C15_Witness ==
    \E s \in Slots :
       /\ Done(s, "upload") /\ reqs[s].outcome = "ok"
       /\ reqs[s].img = <<2105, 600>>
       /\ Encoded(reqs[s].web_size) /\ reqs[s].thumb_size = <<700, 199>>

-----------------------------------------------------------------------------
\* every request that has arrived has run to its end
AllCompleted == \A s \in Slots : reqs[s].pc \in {"idle", "done"}

\* C16: under every interleaving of the steps of concurrent authenticated
\* uploads, edits and deletes, once all requests have completed every record
\* of the table has both of its files.
C16_CompletedRecordsHaveFiles ==
    AllCompleted => \A r \in photos : HasFiles(r)

\* what the interleaving alone does: as long as no write to the file system
\* or the table has failed, every request that has run to its end has ended
\* without an error, and once all have, every record has both of its files
C16_InterleavingHarmless ==
    failures = 0
    => /\ \A s \in Slots : reqs[s].pc = "done" /\ reqs[s].authed
                               => reqs[s].outcome = "ok"
       /\ AllCompleted => \A r \in photos : HasFiles(r)

\* two deletes of the same record have interleaved: both selected the row
\* before either removed it, and both have ended
C16_TwoDeletesInterleaved ==
    /\ \A s \in Slots : Done(s, "delete") /\ reqs[s].row # {}
                           /\ reqs[s].outcome = "ok"
    /\ reqs[1].pid = reqs[2].pid
    /\ failures = 0

-----------------------------------------------------------------------------
\* this step is the edit of the request that arrives in slot s
EditStep(s) == reqs[s].kind = "idle" /\ reqs'[s].kind = "update" /\ reqs'[s].authed

\* C17: with edits running concurrently, every edit applied to a record
\* leaves the record with the title and the date of that one request, and
\* nothing else changes the title or the date of a record: so the record
\* holds the title and date of the edit applied last, never the title of one
\* request with the date of another.
C17_EditsDoNotMix ==
    [][ /\ \A s \in Slots : EditStep(s)
              => \A q \in photos' : q.id = reqs'[s].pid
                     => q.title = reqs'[s].title /\ q.date = reqs'[s].date
        /\ \A r \in photos : \A q \in photos' : q.id = r.id
              => \/ q.title = r.title /\ q.date = r.date
                 \/ \E s \in Slots : EditStep(s) /\ reqs'[s].pid = r.id ]_vars

\* two edits of the same record, with different titles and dates, are in
\* flight together and both applied; the record holds the pair of one
C17_Witness ==
    /\ \A s \in Slots : Done(s, "update") /\ reqs[s].authed
    /\ reqs[1].pid = reqs[2].pid
    /\ reqs[1].title # reqs[2].title /\ reqs[1].date # reqs[2].date
    /\ \E r \in photos : \E s \in Slots :
          r.id = reqs[s].pid /\ r.title = reqs[s].title /\ r.date = reqs[s].date

-----------------------------------------------------------------------------
\* this step is a login of session c with this password field
LoginStep(c, pw) == login_alias(c, pw, 1) \/ admin_login(c, pw, 1)

\* this step changes the table or a directory
ChangesStore == <<photos, webFiles, thumbFiles>>' # <<photos, webFiles, thumbFiles>>

\* C18 as stated: a login whose password field is wrong or missing, that is,
\* is not the configured password, never sets the flag and never clears it.
C18_WrongOrMissingKeepsFlag ==
    [][ \A c \in Sessions, pw \in Passwords :
           pw # ADMIN_PASSWORD /\ LoginStep(c, pw) => session' = session ]_vars

\* C18: with a missing password field read as the empty password, the flag
\* of a session is set only by a login whose password is the configured one
\* and cleared only by a logout, which clears it; a login with another
\* password leaves the flag as it is; and the table and the directories
\* change only in a step of an upload, edit or delete that found the flag
\* set when it arrived.
C18_FlagFollowsLogin ==
    [][ /\ \A c \in Sessions :
              session'[c] # session[c]
              => IF session'[c]
                 THEN \E pw \in Passwords :
                         orEmpty(pw) = ADMIN_PASSWORD /\ LoginStep(c, pw)
                 ELSE admin_logout(c, 1)
        /\ \A c \in Sessions : admin_logout(c, 1) => ~session'[c]
        /\ \A c \in Sessions, pw \in Passwords :
              orEmpty(pw) # ADMIN_PASSWORD /\ LoginStep(c, pw) => session' = session
        /\ ChangesStore
              => \E s \in Slots :
                    /\ reqs'[s].kind \in {"upload", "update", "delete"}
                    /\ reqs'[s].authed
                    /\ reqs[s].kind = "idle" => \E c \in Sessions : session[c] ]_vars

\* under the empty configured password a session is logged in and its upload
\* has added a record
C18_Witness ==
    /\ ADMIN_PASSWORD = <<>>
    /\ \E c \in Sessions : session[c]
    /\ \E s \in Slots : Done(s, "upload") /\ reqs[s].authed /\ reqs[s].outcome = "ok"

-----------------------------------------------------------------------------
\* C19: a delete of an existing record in which the removal of a file has
\* raised an error other than file-not-found has ended there, in an error:
\* the table is as it was when the request arrived, its record included,
\* the thumbnail is in place, and the display file is either in place (its
\* removal raised) or gone for good (the removal of the thumbnail raised).
C19_FailedDeleteKeepsRecord ==
    \A s \in Slots :
       reqs[s].kind = "delete" /\ reqs[s].fault
       => /\ reqs[s].pc = "done" /\ reqs[s].outcome = "error"
          /\ photos = reqs[s].pre.photos
          /\ RowsOf(photos, reqs[s].pid) # {}
          /\ thumbFiles = reqs[s].pre.thumb
          /\ \E row \in reqs[s].row :
                \/ webFiles = reqs[s].pre.web
                \/ /\ row.filename_web \in reqs[s].pre.web
                   /\ webFiles = reqs[s].pre.web \ {row.filename_web}

\* a delete has removed the display file and failed at the thumbnail
C19_Witness ==
    \E s \in Slots :
       /\ Done(s, "delete") /\ reqs[s].fault
       /\ webFiles # reqs[s].pre.web
       /\ RowsOf(photos, reqs[s].pid) # {}

====
